---- MODULE Spec2Model ----
(***************************************************************************)
(* vcfdedup (src/main.rs): a line-oriented vCard parser, the merge of the  *)
(* parsed records by their "N" entry, and the printing of the merged       *)
(* records.                                                                *)
(*                                                                         *)
(* A line is a sequence of one-character strings, so that starts_with and  *)
(* string equality are computed on the characters.  cur_idx is 0-based as  *)
(* in the source: the line it designates is lines[cur_idx + 1].  An        *)
(* Option<T> is a set with at most one element.  A HashSet is a set, and   *)
(* every iteration over one is a choice among its orders.  A HashMap is a  *)
(* function on its keys.  Diagnostics on stderr are not modelled.          *)
(***************************************************************************)
EXTENDS Naturals, Sequences, FiniteSets

VARIABLES
    lines,       \* Parser.lines
    cur_idx,     \* Parser.cur_idx
    cards,       \* Parser.cards, then `cards` of main
    cur_card,    \* Parser.cur_card : Option<Vcard>
    entry,       \* the local `entry` of Parser::entry : Option<VcardEntry>
    pc,          \* the position of the program
    result,      \* what Parser::parse did: Running, Ok, Format or Panic
    collection,  \* `collection` of main : HashMap<VcardEntry, Vcard>
    names,       \* the value of `name` in each finished iteration of main's loop
    printed,     \* the keys of collection whose record has been printed
    output,      \* the lines written to stdout
    run,         \* how many times the program has been started
    prev         \* the collection of the previous run

vars == <<lines, cur_idx, cards, cur_card, entry, pc, result, collection,
          names, printed, output, run, prev>>

-----------------------------------------------------------------------------
(* Bounds *)

MaxLines == 6
MaxCards == 2
MaxBodyLines == 3
MaxRuns == 2

-----------------------------------------------------------------------------
(* Text *)

BEGIN_VCARD == <<"B", "E", "G", "I", "N", ":", "V", "C", "A", "R", "D">>
END_VCARD == <<"E", "N", "D", ":", "V", "C", "A", "R", "D">>
VERSION_PREFIX == <<"V", "E", "R", "S", "I", "O", "N", ":">>
SPACE == <<" ">>
KEY_N == <<"N">>

VERSION_3 == VERSION_PREFIX \o <<"3">>
VERSION_4 == VERSION_PREFIX \o <<"4">>
N_A == <<"N", ":", "A">>
NOTE_Y == <<"N", "O", "T", "E", ":", "y">>
TEL_1 == <<"T", "E", "L", ":", "1">>
CONT_X == <<" ", "x">>
TAB_X == <<"\t", "x">>

\* str::starts_with
starts_with(s, p) == Len(s) >= Len(p) /\ SubSeq(s, 1, Len(p)) = p

None == {}
Some(x) == {x}
unwrap(o) == CHOOSE x \in o : TRUE

SeqsUpTo(S, n) == UNION {[1..k -> S] : k \in 0..n}

-----------------------------------------------------------------------------
(* VcardEntry and Vcard *)

VcardEntry_new == [lines |-> <<>>]

\* the assertion of VcardEntry::push
push_ok(self, s) == starts_with(s, SPACE) \/ self.lines = <<>>

\* puts the line before the lines already there
VcardEntry_push_front(self, s) == [self EXCEPT !.lines = <<s>> \o @]

VcardEntry_push(self, s) == [self EXCEPT !.lines = Append(@, s)]

\* prints the property line only
VcardEntry_print_first(self) == SubSeq(self.lines, 1, 1)

VcardEntry_print(self) == self.lines

Vcard_new == [version |-> <<>>, content |-> {}]

set_version(self, s) == [self EXCEPT !.version = s]

insert(self, e) == [self EXCEPT !.content = @ \cup {e}]

\* inserts nothing
extend_nothing(self, other) == self

extend(self, other) == [self EXCEPT !.content = @ \cup other.content]

\* matches whatever the key
get_any(self, key) ==
    IF self.content = {} THEN {None} ELSE {Some(e) : e \in self.content}

\* Vcard::get: find over a HashSet returns the first match of the iteration,
\* which is any of the matching entries; the value is the set of the Options
\* it can return.
get(self, key) ==
    LET found == {e \in self.content : starts_with(e.lines[1], key)}
    IN  IF found = {} THEN {None} ELSE {Some(e) : e \in found}

-----------------------------------------------------------------------------
(* Inputs *)

Alphabet == {BEGIN_VCARD, END_VCARD, VERSION_3, N_A, TEL_1, CONT_X, TAB_X}

Init ==
    /\ lines \in SeqsUpTo(Alphabet, MaxLines)
    /\ cur_idx = 0
    /\ cards = <<>>
    /\ cur_card = None
    /\ entry = None
    /\ pc = "begin"
    /\ result = "Running"
    /\ collection = <<>>
    /\ names = <<>>
    /\ printed = {}
    /\ output = <<>>
    /\ run = 1
    /\ prev = <<>>

-----------------------------------------------------------------------------
(* Parser *)

AtEnd == cur_idx >= Len(lines)
Line == lines[cur_idx + 1]

\* an indexing out of bounds, a failed unwrap or a failed assertion
Panic ==
    /\ result' = "Panic"
    /\ pc' = "exit"

\* return Err(Box::new(Error::Format))
FormatError ==
    /\ result' = "Format"
    /\ pc' = "returned"

\* takes a file with no card for a malformed one
ParseReturn_nonempty ==
    /\ pc = "begin"
    /\ AtEnd
    /\ result' = IF cards = <<>> THEN "Format" ELSE "Ok"
    /\ pc' = "returned"
    /\ UNCHANGED <<lines, cur_idx, cards, cur_card, entry, collection, names,
                   printed, output, run, prev>>

\* Parser::parse: the loop is left, Ok(self.cards)
ParseReturn ==
    /\ pc = "begin"
    /\ AtEnd
    /\ result' = "Ok"
    /\ pc' = "returned"
    /\ UNCHANGED <<lines, cur_idx, cards, cur_card, entry, collection, names,
                   printed, output, run, prev>>

\* goes on to the version line without opening a card
Begin_no_open ==
    /\ pc = "begin"
    /\ ~AtEnd
    /\ IF Line = BEGIN_VCARD
       THEN IF cur_card # None
            THEN FormatError /\ UNCHANGED <<cur_card, cur_idx>>
            ELSE /\ cur_card' = cur_card
                 /\ cur_idx' = cur_idx + 1
                 /\ pc' = "version"
                 /\ UNCHANGED result
       ELSE FormatError /\ UNCHANGED <<cur_card, cur_idx>>
    /\ UNCHANGED <<lines, cards, entry, collection, names, printed, output,
                   run, prev>>

\* Parser::parse enters the loop, Parser::vcard calls Parser::begin
Begin ==
    /\ pc = "begin"
    /\ ~AtEnd
    /\ IF Line = BEGIN_VCARD
       THEN IF cur_card # None
            THEN FormatError /\ UNCHANGED <<cur_card, cur_idx>>
            ELSE /\ cur_card' = Some(Vcard_new)
                 /\ cur_idx' = cur_idx + 1
                 /\ pc' = "version"
                 /\ UNCHANGED result
       ELSE FormatError /\ UNCHANGED <<cur_card, cur_idx>>
    /\ UNCHANGED <<lines, cards, entry, collection, names, printed, output,
                   run, prev>>

\* takes whatever line follows BEGIN:VCARD as the version
Version_any ==
    /\ pc = "version"
    /\ IF AtEnd \/ cur_card = None
       THEN Panic /\ UNCHANGED <<cur_card, cur_idx>>
       ELSE /\ cur_card' = Some(set_version(unwrap(cur_card), Line))
            /\ cur_idx' = cur_idx + 1
            /\ pc' = "end"
            /\ UNCHANGED result
    /\ UNCHANGED <<lines, cards, entry, collection, names, printed, output,
                   run, prev>>

\* Parser::version
Version ==
    /\ pc = "version"
    /\ IF AtEnd
       THEN Panic /\ UNCHANGED <<cur_card, cur_idx>>
       ELSE IF starts_with(Line, VERSION_PREFIX)
            THEN IF cur_card = None
                 THEN Panic /\ UNCHANGED <<cur_card, cur_idx>>
                 ELSE /\ cur_card' = Some(set_version(unwrap(cur_card), Line))
                      /\ cur_idx' = cur_idx + 1
                      /\ pc' = "end"
                      /\ UNCHANGED result
            ELSE FormatError /\ UNCHANGED <<cur_card, cur_idx>>
    /\ UNCHANGED <<lines, cards, entry, collection, names, printed, output,
                   run, prev>>

\* pushes a copy of the current card and leaves it open
End_no_take ==
    /\ pc = "end"
    /\ IF AtEnd
       THEN Panic /\ UNCHANGED <<cards, cur_card, cur_idx>>
       ELSE IF Line = END_VCARD
            THEN IF cur_card = None
                 THEN Panic /\ UNCHANGED <<cards, cur_card, cur_idx>>
                 ELSE /\ cards' = Append(cards, unwrap(cur_card))
                      /\ cur_card' = cur_card
                      /\ cur_idx' = cur_idx + 1
                      /\ pc' = "begin"
                      /\ UNCHANGED result
            ELSE /\ pc' = "entry"
                 /\ UNCHANGED <<cards, cur_card, cur_idx, result>>
    /\ UNCHANGED <<lines, entry, collection, names, printed, output, run, prev>>

\* closes the card and stays on the END:VCARD line
End_no_advance ==
    /\ pc = "end"
    /\ IF AtEnd
       THEN Panic /\ UNCHANGED <<cards, cur_card, cur_idx>>
       ELSE IF Line = END_VCARD
            THEN IF cur_card = None
                 THEN Panic /\ UNCHANGED <<cards, cur_card, cur_idx>>
                 ELSE /\ cards' = Append(cards, unwrap(cur_card))
                      /\ cur_card' = None
                      /\ cur_idx' = cur_idx
                      /\ pc' = "begin"
                      /\ UNCHANGED result
            ELSE /\ pc' = "entry"
                 /\ UNCHANGED <<cards, cur_card, cur_idx, result>>
    /\ UNCHANGED <<lines, entry, collection, names, printed, output, run, prev>>

\* puts the closed card before the cards already finished
End_push_front ==
    /\ pc = "end"
    /\ IF AtEnd
       THEN Panic /\ UNCHANGED <<cards, cur_card, cur_idx>>
       ELSE IF Line = END_VCARD
            THEN IF cur_card = None
                 THEN Panic /\ UNCHANGED <<cards, cur_card, cur_idx>>
                 ELSE /\ cards' = <<unwrap(cur_card)>> \o cards
                      /\ cur_card' = None
                      /\ cur_idx' = cur_idx + 1
                      /\ pc' = "begin"
                      /\ UNCHANGED result
            ELSE /\ pc' = "entry"
                 /\ UNCHANGED <<cards, cur_card, cur_idx, result>>
    /\ UNCHANGED <<lines, entry, collection, names, printed, output, run, prev>>

\* Parser::end, and the test of the loop of Parser::vcard
End ==
    /\ pc = "end"
    /\ IF AtEnd
       THEN Panic /\ UNCHANGED <<cards, cur_card, cur_idx>>
       ELSE IF Line = END_VCARD
            THEN IF cur_card = None
                 THEN Panic /\ UNCHANGED <<cards, cur_card, cur_idx>>
                 ELSE /\ cards' = Append(cards, unwrap(cur_card))
                      /\ cur_card' = None
                      /\ cur_idx' = cur_idx + 1
                      /\ pc' = "begin"
                      /\ UNCHANGED result
            ELSE /\ pc' = "entry"
                 /\ UNCHANGED <<cards, cur_card, cur_idx, result>>
    /\ UNCHANGED <<lines, entry, collection, names, printed, output, run, prev>>

\* takes the property line and stays on it
Entry_no_advance ==
    /\ pc = "entry"
    /\ IF AtEnd \/ ~push_ok(VcardEntry_new, Line)
       THEN Panic /\ UNCHANGED <<entry, cur_idx>>
       ELSE /\ entry' = Some(VcardEntry_push(VcardEntry_new, Line))
            /\ cur_idx' = cur_idx
            /\ pc' = "cont"
            /\ UNCHANGED result
    /\ UNCHANGED <<lines, cards, cur_card, collection, names, printed, output,
                   run, prev>>

\* Parser::entry up to its loop: the property line
Entry ==
    /\ pc = "entry"
    /\ IF AtEnd \/ ~push_ok(VcardEntry_new, Line)
       THEN Panic /\ UNCHANGED <<entry, cur_idx>>
       ELSE /\ entry' = Some(VcardEntry_push(VcardEntry_new, Line))
            /\ cur_idx' = cur_idx + 1
            /\ pc' = "cont"
            /\ UNCHANGED result
    /\ UNCHANGED <<lines, cards, cur_card, collection, names, printed, output,
                   run, prev>>

\* Parser::entry, one test of its loop: a continuation line is pushed, or the
\* loop is left and the entry is inserted into the current card
Continuation ==
    /\ pc = "cont"
    /\ IF AtEnd
       THEN Panic /\ UNCHANGED <<entry, cur_card, cur_idx>>
       ELSE IF starts_with(Line, SPACE)
            THEN IF push_ok(unwrap(entry), Line)
                 THEN /\ entry' = Some(VcardEntry_push(unwrap(entry), Line))
                      /\ cur_idx' = cur_idx + 1
                      /\ UNCHANGED <<cur_card, pc, result>>
                 ELSE Panic /\ UNCHANGED <<entry, cur_card, cur_idx>>
            ELSE IF cur_card = None
                 THEN Panic /\ UNCHANGED <<entry, cur_card, cur_idx>>
                 ELSE /\ cur_card' = Some(insert(unwrap(cur_card), unwrap(entry)))
                      /\ entry' = None
                      /\ pc' = "end"
                      /\ UNCHANGED <<cur_idx, result>>
    /\ UNCHANGED <<lines, cards, collection, names, printed, output, run, prev>>

ParserNext == ParseReturn \/ Begin \/ Version \/ End \/ Entry \/ Continuation

-----------------------------------------------------------------------------
(* main *)

\* goes on with the finished cards whatever parse returned
MainParse_ignore_err ==
    /\ pc = "returned"
    /\ pc' = "dedup"
    /\ UNCHANGED <<lines, cur_idx, cards, cur_card, entry, result, collection,
                   names, printed, output, run, prev>>

\* let cards = { ... parser.parse()? }: an Err is returned from main
MainParse ==
    /\ pc = "returned"
    /\ pc' = IF result = "Ok" THEN "dedup" ELSE "exit"
    /\ UNCHANGED <<lines, cur_idx, cards, cur_card, entry, result, collection,
                   names, printed, output, run, prev>>

\* a key is looked up by its property line alone
and_modify_first_line(coll, name, c) ==
    LET same == {k \in DOMAIN coll : k.lines[1] = name.lines[1]}
    IN  IF same # {}
        THEN [coll EXCEPT ![CHOOSE k \in same : TRUE] = extend(@, c)]
        ELSE [k \in DOMAIN coll \cup {name} |-> IF k = name THEN c ELSE coll[k]]

\* the record stored under a key takes the version of the card merged into it
and_modify_version(coll, name, c) ==
    IF name \in DOMAIN coll
    THEN [coll EXCEPT ![name] = [extend(@, c) EXCEPT !.version = c.version]]
    ELSE [k \in DOMAIN coll \cup {name} |-> IF k = name THEN c ELSE coll[k]]

\* a card whose key is already there replaces the record stored under it
and_modify_replace(coll, name, c) ==
    [k \in DOMAIN coll \cup {name} |-> IF k = name THEN c ELSE coll[k]]

\* collection.entry(name).and_modify(|e| e.extend(&c)).or_insert(c)
and_modify_or_insert(coll, name, c) ==
    IF name \in DOMAIN coll
    THEN [coll EXCEPT ![name] = extend(@, c)]
    ELSE [k \in DOMAIN coll \cup {name} |-> IF k = name THEN c ELSE coll[k]]

\* the collections the loop `for c in cards` can end with, from the collection
\* coll and the cards cs still to file, over every entry Vcard::get can return
RECURSIVE Collections(_, _)
Collections(cs, coll) ==
    IF cs = <<>>
    THEN {coll}
    ELSE UNION {Collections(Tail(cs),
                            IF name = None
                            THEN coll
                            ELSE and_modify_or_insert(coll, unwrap(name), Head(cs))) :
                    name \in get(Head(cs), KEY_N)}

\* for c in cards: one iteration, or the end of the loop
Dedup ==
    /\ pc = "dedup"
    /\ IF Len(names) = Len(cards)
       THEN /\ pc' = "print"
            /\ UNCHANGED <<collection, names>>
       ELSE LET c == cards[Len(names) + 1]
            IN  \E name \in get(c, KEY_N) :
                    /\ collection' = IF name = None
                                     THEN collection
                                     ELSE and_modify_or_insert(collection, unwrap(name), c)
                    /\ names' = Append(names, name)
                    /\ pc' = pc
    /\ UNCHANGED <<lines, cur_idx, cards, cur_card, entry, result, printed,
                   output, run, prev>>

\* the orders in which a HashSet can be iterated
Orders(S) ==
    {s \in [1..Cardinality(S) -> S] : \A i, j \in 1..Cardinality(S) : s[i] = s[j] => i = j}

RECURSIVE Flatten(_)
Flatten(ss) == IF ss = <<>> THEN <<>> ELSE Head(ss) \o Flatten(Tail(ss))

\* Vcard::print, with the entries iterated in `order`
Vcard_print(self, order) ==
    Flatten([i \in 1..Len(order) |-> VcardEntry_print(order[i])])

\* the four println of one iteration of the last loop of main
block(c, order) ==
    <<BEGIN_VCARD, c.version>> \o Vcard_print(c, order) \o <<END_VCARD>>

\* for c in collection.values(): one iteration, or the end of the loop
PrintCard ==
    /\ pc = "print"
    /\ IF printed = DOMAIN collection
       THEN /\ pc' = "exit"
            /\ UNCHANGED <<printed, output>>
       ELSE \E k \in DOMAIN collection \ printed :
                \E order \in Orders(collection[k].content) :
                    /\ output' = output \o block(collection[k], order)
                    /\ printed' = printed \cup {k}
                    /\ pc' = pc
    /\ UNCHANGED <<lines, cur_idx, cards, cur_card, entry, result, collection,
                   names, run, prev>>

MainNext == MainParse \/ Dedup \/ PrintCard

Next == ParserNext \/ MainNext

Spec == Init /\ [][Next]_vars

-----------------------------------------------------------------------------
(* The program started again on what it printed *)

Versions == {VERSION_3, VERSION_4}
BodyAlphabet == {N_A, NOTE_Y, TEL_1, CONT_X}

Card(v, body) == <<BEGIN_VCARD, v>> \o body \o <<END_VCARD>>

RECURSIVE Sum(_)
Sum(ns) == IF ns = <<>> THEN 0 ELSE Head(ns) + Sum(Tail(ns))

\* the file of the cards with the version lines vs, whose entries take lens[i]
\* lines each, in all the lines `body`
RECURSIVE File(_, _, _)
File(vs, lens, body) ==
    IF vs = <<>>
    THEN <<>>
    ELSE Card(Head(vs), SubSeq(body, 1, Head(lens)))
             \o File(Tail(vs), Tail(lens), SubSeq(body, Head(lens) + 1, Len(body)))

\* the files of at most MaxCards cards whose entries take at most MaxBodyLines
\* lines in all
InitFiles ==
    /\ \E n \in 0..MaxCards :
           \E vs \in [1..n -> Versions], lens \in [1..n -> 0..MaxBodyLines] :
               /\ Sum(lens) <= MaxBodyLines
               /\ \E body \in [1..Sum(lens) -> BodyAlphabet] :
                      lines = File(vs, lens, body)
    /\ cur_idx = 0
    /\ cards = <<>>
    /\ cur_card = None
    /\ entry = None
    /\ pc = "begin"
    /\ result = "Running"
    /\ collection = <<>>
    /\ names = <<>>
    /\ printed = {}
    /\ output = <<>>
    /\ run = 1
    /\ prev = <<>>

\* Parser::new on the output of the run that ended, in a new process
Rerun ==
    /\ pc = "exit"
    /\ result = "Ok"
    /\ run < MaxRuns
    /\ lines' = output
    /\ prev' = collection
    /\ run' = run + 1
    /\ cur_idx' = 0
    /\ cards' = <<>>
    /\ cur_card' = None
    /\ entry' = None
    /\ pc' = "begin"
    /\ result' = "Running"
    /\ collection' = <<>>
    /\ names' = <<>>
    /\ printed' = {}
    /\ output' = <<>>

NextRerun == Next \/ Rerun

SpecRerun == InitFiles /\ [][NextRerun]_vars

\* one run of the program on each of the same files
SpecFiles == InitFiles /\ [][Next]_vars

\* the process keeps running until Parser::parse returns or panics
SpecParse == Init /\ [][Next]_vars /\ WF_vars(ParserNext)

-----------------------------------------------------------------------------
(* Properties *)

Range(f) == {f[k] : k \in DOMAIN f}
Min(S) == CHOOSE x \in S : \A y \in S : x <= y
Max(S) == CHOOSE x \in S : \A y \in S : x >= y

\* the cards that main has filed under the key k so far
KeyedAt(k) == {i \in 1..Len(names) : names[i] = Some(k)}

\* the card has no entry whose first line starts with "N"
NoNameEntry(c) == \A e \in c.content : ~starts_with(e.lines[1], KEY_N)

\* the parser has stopped with a record open and the cursor at the end of input
Truncated == result # "Running" /\ cur_card # None /\ AtEnd

\* a BEGIN:VCARD line follows another one with no END:VCARD between them
HasNestedBegin(ls) ==
    \E i, j \in 1..Len(ls) :
        /\ i < j
        /\ ls[i] = BEGIN_VCARD
        /\ ls[j] = BEGIN_VCARD
        /\ \A n \in (i + 1)..(j - 1) : ls[n] # END_VCARD

\* C1: when the input ends before a required END:VCARD (the parser stops
\* with a record open and the cursor at the end of the lines), Parser::parse
\* has returned a Format error: it has neither panicked nor returned Ok.
TruncatedInputIsFormatError == Truncated => result = "Format"

\* C2: an input with a BEGIN:VCARD line inside an open record, and which is
\* not cut short, makes Parser::parse fail with a Format error.
NestedBeginIsFormatError ==
    (result # "Running" /\ HasNestedBegin(lines) /\ ~Truncated) => result = "Format"

\* C3: the collection holds exactly one record per merge key that main found,
\* and the entry set of that record is the union of the entry sets of the
\* cards filed under that key.
MergedIsUnionPerKey ==
    /\ DOMAIN collection =
           {unwrap(names[i]) : i \in {j \in 1..Len(names) : names[j] # None}}
    /\ \A k \in DOMAIN collection :
           collection[k].content = UNION {cards[i].content : i \in KeyedAt(k)}

\* C3 witness: the cards N:A and N:A, TEL:1 have become one record holding
\* N:A and TEL:1.
MergedIsUnionPerKeyWitness ==
    /\ pc = "exit"
    /\ run = 1
    /\ Len(cards) = 2
    /\ cards[1].content = {[lines |-> <<N_A>>]}
    /\ cards[2].content = {[lines |-> <<N_A>>], [lines |-> <<TEL_1>>]}
    /\ DOMAIN collection = {[lines |-> <<N_A>>]}
    /\ collection[[lines |-> <<N_A>>]].content =
           {[lines |-> <<N_A>>], [lines |-> <<TEL_1>>]}

\* C4: when the cards of a run are exactly the records of the collection of
\* the run before, the collection this run builds is that collection again.
DedupIsIdempotent ==
    ( /\ run > 1
      /\ pc \in {"print", "exit"}
      /\ result = "Ok"
      /\ {cards[i] : i \in 1..Len(cards)} = Range(prev)
      /\ Len(cards) = Cardinality(DOMAIN prev) )
    => collection = prev

\* C5: a card with no entry starting with "N" is filed under no key, every
\* record of the collection has such an entry and holds only entries of the
\* cards that have one, and only lines of those cards are printed.
RecordWithoutNameIsDropped ==
    LET named == {i \in 1..Len(names) : ~NoNameEntry(cards[i])}
    IN  /\ \A i \in 1..Len(names) : NoNameEntry(cards[i]) => names[i] = None
        /\ \A k \in DOMAIN collection :
               /\ ~NoNameEntry(collection[k])
               /\ \A e \in collection[k].content :
                      \E i \in named : e \in cards[i].content
        /\ \A n \in 1..Len(output) :
               \/ output[n] \in {BEGIN_VCARD, END_VCARD}
               \/ \E i \in named :
                      \/ output[n] = cards[i].version
                      \/ \E e \in cards[i].content :
                             \E m \in 1..Len(e.lines) : output[n] = e.lines[m]

\* C5 witness: the run is over, a card holding entries but none starting with
\* "N" was read, and another card was printed.
RecordWithoutNameIsDroppedWitness ==
    /\ pc = "exit"
    /\ output # <<>>
    /\ \E i \in 1..Len(cards) : NoNameEntry(cards[i]) /\ cards[i].content # {}

\* C6: the record stored under a key has the version line of the first card
\* filed under that key.
FirstSeenVersionKept ==
    \A k \in DOMAIN collection :
        collection[k].version = cards[Min(KeyedAt(k))].version

\* C6 witness: two cards with different version lines were filed under one key.
FirstSeenVersionKeptWitness ==
    /\ pc = "exit"
    /\ Len(cards) = 2
    /\ names[1] # None
    /\ names[1] = names[2]
    /\ cards[1].version # cards[2].version

\* C7 as stated: the record stored under a key has the version line of the
\* last card filed under that key.
LastInsertedVersionWins ==
    \A k \in DOMAIN collection :
        collection[k].version = cards[Max(KeyedAt(k))].version

\* C7 as amended: when the first and the last card filed under a key differ in
\* their version lines, the record stored under the key has the version line
\* of the first and not that of the last.
FirstInsertedVersionWins ==
    \A k \in DOMAIN collection :
        LET first == cards[Min(KeyedAt(k))]
            last == cards[Max(KeyedAt(k))]
        IN  first.version # last.version
                => /\ collection[k].version = first.version
                   /\ collection[k].version # last.version

\* C7 witness: a VERSION:3 card then a VERSION:4 card were merged, and the
\* merged record says VERSION:3.
FirstInsertedVersionWinsWitness ==
    /\ pc = "exit"
    /\ Len(cards) = 2
    /\ cards[1].version = VERSION_3
    /\ cards[2].version = VERSION_4
    /\ \E k \in DOMAIN collection :
           KeyedAt(k) = {1, 2} /\ collection[k].version = VERSION_3

\* C8: once Parser::parse has failed with a Format error, main does nothing
\* more: no card is looked at, the collection stays empty, nothing is printed.
ParseFailureAbortsRun ==
    result = "Format"
        => /\ pc \in {"returned", "exit"}
           /\ names = <<>>
           /\ DOMAIN collection = {}
           /\ printed = {}
           /\ output = <<>>

\* C8 witness: the run ended on a Format error after a well-formed card with
\* an N entry had been parsed.
ParseFailureAbortsRunWitness ==
    /\ result = "Format"
    /\ pc = "exit"
    /\ Len(cards) >= 1
    /\ ~NoNameEntry(cards[1])

\* C9: when the line after a BEGIN:VCARD does not start with "VERSION:",
\* Parser::version fails with a Format error and adds no card, and no card is
\* added after a Format error.
MissingVersionIsFormatError ==
    [][ /\ (pc = "version" /\ ~AtEnd /\ ~starts_with(Line, VERSION_PREFIX))
            => (result' = "Format" /\ pc' = "returned" /\ cards' = cards)
        /\ result = "Format" => (result' = "Format" /\ cards' = cards) ]_vars

\* C9 witness: the input BEGIN:VCARD, END:VCARD has ended on a Format error
\* with no card.
MissingVersionIsFormatErrorWitness ==
    /\ lines = <<BEGIN_VCARD, END_VCARD>>
    /\ result = "Format"
    /\ pc = "exit"
    /\ cards = <<>>

\* every entry of the collection starts with a property line
WellFormed(coll) ==
    \A k \in DOMAIN coll :
        \A e \in coll[k].content : ~starts_with(e.lines[1], SPACE)

\* main has filed every card under a key of its own
AlreadyDeduplicated ==
    /\ pc \in {"print", "exit"}
    /\ Len(names) = Len(cards)
    /\ \A i \in 1..Len(names) : names[i] # None
    /\ \A i, j \in 1..Len(names) : names[i] = names[j] => i = j

\* C10: the merged records of an already deduplicated input are its cards,
\* and parsing what a run printed, whatever the order of the records and of
\* the entries, succeeds and yields the merged records of that run, provided
\* each of their entries starts with a property line.
RoundTrip ==
    /\ AlreadyDeduplicated => Range(collection) = {cards[i] : i \in 1..Len(cards)}
    /\ (run > 1 /\ WellFormed(prev))
           => /\ result \in {"Running", "Ok"}
              /\ result = "Ok"
                     => /\ {cards[i] : i \in 1..Len(cards)} = Range(prev)
                        /\ Len(cards) = Cardinality(DOMAIN prev)

\* C10 witness: two merged records, one of them with an entry that has a
\* continuation line, were printed and parsed again.
RoundTripWitness ==
    /\ run = 2
    /\ result = "Ok"
    /\ pc = "returned"
    /\ WellFormed(prev)
    /\ Cardinality(DOMAIN prev) = 2
    /\ \E k \in DOMAIN prev : \E e \in prev[k].content : Len(e.lines) = 2

\* the cards that main has filed under some key so far
Named == {i \in 1..Len(names) : names[i] # None}

\* C11: two cards whose keys differ in any line are filed under two keys of
\* the collection, each holding only the entries of the cards filed under it:
\* there are as many records as there are distinct line sequences among the
\* keys.
KeysAreWholeEntries ==
    /\ \A i, j \in Named :
           LET ki == unwrap(names[i])
               kj == unwrap(names[j])
           IN  ki.lines # kj.lines
                   => /\ {ki, kj} \subseteq DOMAIN collection
                      /\ collection[ki].content =
                             UNION {cards[n].content : n \in KeyedAt(ki)}
                      /\ j \notin KeyedAt(ki)
    /\ Cardinality(DOMAIN collection) =
           Cardinality({unwrap(names[i]).lines : i \in Named})

\* C11 witness: a card with the key N:A and a card with the key N:A followed
\* by a continuation line have been filed as two records.
KeysAreWholeEntriesWitness ==
    /\ pc = "exit"
    /\ Len(cards) = 2
    /\ names[1] = Some([lines |-> <<N_A>>])
    /\ names[2] = Some([lines |-> <<N_A, CONT_X>>])
    /\ DOMAIN collection = {[lines |-> <<N_A>>], [lines |-> <<N_A, CONT_X>>]}
    /\ collection[[lines |-> <<N_A>>]].content = {[lines |-> <<N_A>>]}

\* C12: on an input of zero lines the parse does not fail, no card is
\* parsed, the collection stays empty and nothing is printed, and the run
\* ends with parse having returned Ok.
EmptyInputGivesNothing ==
    lines = <<>>
        => /\ result \in {"Running", "Ok"}
           /\ cards = <<>>
           /\ DOMAIN collection = {}
           /\ output = <<>>
           /\ pc \in {"returned", "dedup", "print", "exit"} => result = "Ok"

\* C12 witness: the run on the empty input has ended.
EmptyInputGivesNothingWitness ==
    /\ lines = <<>>
    /\ pc = "exit"
    /\ result = "Ok"
    /\ run = 1

TAB == <<"\t">>

\* C13: while an entry that began with a property line is being read, a line
\* that starts with a space or a tab is pushed onto that entry and the loop
\* goes on.
WhitespaceLineContinuesEntry ==
    [][ (pc = "cont" /\ ~AtEnd
            /\ ~starts_with(unwrap(entry).lines[1], SPACE)
            /\ ~starts_with(unwrap(entry).lines[1], TAB)
            /\ (starts_with(Line, SPACE) \/ starts_with(Line, TAB)))
            => /\ entry' = Some(VcardEntry_push(unwrap(entry), Line))
               /\ cur_idx' = cur_idx + 1
               /\ pc' = "cont" ]_vars

\* the BEGIN:VCARD lines that stand first or right after an END:VCARD
BoundaryBegins(ls) ==
    {i \in 1..Len(ls) : ls[i] = BEGIN_VCARD /\ (i = 1 \/ ls[i - 1] = END_VCARD)}

\* C14: when Parser::parse has returned Ok the cursor is at the end of the
\* lines, no card and no entry is in progress, and there are as many cards
\* as BEGIN:VCARD lines at a record boundary.
OkOnlyAtRecordBoundary ==
    result = "Ok"
        => /\ cur_idx = Len(lines)
           /\ cur_card = None
           /\ entry = None
           /\ Len(cards) = Cardinality(BoundaryBegins(lines))

\* C14 witness: parse has returned Ok with two cards.
OkOnlyAtRecordBoundaryWitness ==
    /\ result = "Ok"
    /\ pc = "returned"
    /\ Len(cards) = 2
    /\ cur_idx = Len(lines)

\* the entry is not empty and only its first line may lack a leading space
EntryShape(e) ==
    /\ e.lines # <<>>
    /\ \A m \in 2..Len(e.lines) : starts_with(e.lines[m], SPACE)

\* C15: the entry being read, every entry of the card being read and of the
\* finished cards is non-empty with a leading space on each line but the
\* first, and a panic of the parser is an index past the last line, never the
\* assertion of VcardEntry::push.
EntriesAreShaped ==
    /\ \A e \in entry : EntryShape(e)
    /\ \A c \in cur_card : \A e \in c.content : EntryShape(e)
    /\ \A i \in 1..Len(cards) : \A e \in cards[i].content : EntryShape(e)
    /\ result = "Panic" => AtEnd

\* C15 witness: a card with an entry of a property line and two continuation
\* lines has been finished.
EntriesAreShapedWitness ==
    /\ result = "Ok"
    /\ \E i \in 1..Len(cards) : \E e \in cards[i].content : Len(e.lines) = 3

\* C16: the cursor never goes back, the lines stay as they are, and each
\* begin, version and entry that succeeds, each continuation line taken and
\* each end that finds END:VCARD moves the cursor by one.
CursorOnlyAdvances ==
    [][ /\ cur_idx' >= cur_idx
        /\ lines' = lines
        /\ (pc = "begin" /\ pc' = "version") => cur_idx' = cur_idx + 1
        /\ (pc = "version" /\ pc' = "end") => cur_idx' = cur_idx + 1
        /\ (pc = "end" /\ pc' = "begin") => cur_idx' = cur_idx + 1
        /\ (pc = "entry" /\ pc' = "cont") => cur_idx' = cur_idx + 1
        /\ (pc = "cont" /\ pc' = "cont") => cur_idx' = cur_idx + 1 ]_vars

\* C16 witness: the cursor has gone through a card with an entry that has a
\* continuation line, up to the end of the lines.
CursorOnlyAdvancesWitness ==
    /\ result = "Ok"
    /\ cur_idx = Len(lines)
    /\ Len(cards) = 1
    /\ \E e \in cards[1].content : Len(e.lines) = 2

\* the positions of the END:VCARD lines
Ends(ls) == {p \in 1..Len(ls) : ls[p] = END_VCARD}

\* the position of the i-th END:VCARD line
NthEnd(ls, i) ==
    CHOOSE p \in Ends(ls) : Cardinality({q \in Ends(ls) : q <= p}) = i

\* the entries of the property lines and continuation lines `body`: an entry
\* starts at the first line and at each line with no leading space
EntriesOf(body) ==
    LET starts == {p \in 1..Len(body) : p = 1 \/ ~starts_with(body[p], SPACE)}
        last(p) == CHOOSE q \in p..Len(body) :
                       /\ \A r \in (p + 1)..q : r \notin starts
                       /\ q = Len(body) \/ (q + 1) \in starts
    IN  {[lines |-> SubSeq(body, p, last(p))] : p \in starts}

\* the record of the i-th block of lines closed by an END:VCARD
RecordOfBlock(ls, i) ==
    LET first == IF i = 1 THEN 1 ELSE NthEnd(ls, i - 1) + 1
    IN  [version |-> ls[first + 1],
         content |-> EntriesOf(SubSeq(ls, first + 2, NthEnd(ls, i) - 1))]

\* C17: the i-th finished card is the record of the i-th BEGIN:VCARD ...
\* END:VCARD block of the lines: its version line and its entries.
CardsInFileOrder ==
    \A i \in 1..Len(cards) : cards[i] = RecordOfBlock(lines, i)

\* C17 witness: parse has returned two different cards, a VERSION:3 card
\* first and a VERSION:4 card with an entry second.
CardsInFileOrderWitness ==
    /\ result = "Ok"
    /\ run = 1
    /\ Len(cards) = 2
    /\ cards[1].version = VERSION_3
    /\ cards[2].version = VERSION_4
    /\ cards[2].content # {}
    /\ cards[1].content # cards[2].content

\* C18: when the loop of main is over, the merged records are the same
\* whichever of the matching entries Vcard::get returned for each card.
MergedRecordsAreDetermined ==
    pc \in {"print", "exit"}
        => \A coll \in Collections(cards, <<>>) : Range(coll) = Range(collection)

\* what is left for the parser to do: the lines from the cursor on, and the
\* steps to the next move of the cursor
Measure ==
    3 * (Len(lines) - cur_idx)
        + (IF pc = "cont" THEN 2 ELSE IF pc = "end" THEN 1 ELSE 0)

ParserRuns == pc \in {"begin", "version", "end", "entry", "cont"}

\* C19: Parser::parse halts: each step of the parser stops the parse or
\* brings it nearer to the end of the lines, the cursor never passes the
\* end of the lines, and in the end parse has returned or panicked.
ParseHalts ==
    /\ [][ParserRuns => (result' # "Running" \/ Measure' < Measure)]_vars
    /\ [](cur_idx <= Len(lines))
    /\ <>(result # "Running")

\* C19 witness: parse has gone through six lines of two entries with
\* continuation lines and has stopped.
ParseHaltsWitness ==
    /\ result # "Running"
    /\ cur_idx = 6
    /\ \E c \in cur_card : \E e \in c.content : Len(e.lines) = 2

\* C20: no card is open when begin is called and one is open when version,
\* end or entry is called, an entry is in progress only inside entry, and
\* the parser fails only on a missing BEGIN:VCARD, on a missing VERSION: or
\* with an index past the last line: never on an unwrap of cur_card nor on
\* the already-open check of begin.
CardSlotDiscipline ==
    /\ pc = "begin" => cur_card = None
    /\ pc \in {"version", "end", "entry", "cont"} => cur_card # None
    /\ pc = "cont" => entry # None
    /\ entry # None => (pc = "cont" \/ result = "Panic")
    /\ result = "Panic" => AtEnd
    /\ result = "Format"
           => \/ cur_card = None /\ Line # BEGIN_VCARD
              \/ cur_card # None /\ ~starts_with(Line, VERSION_PREFIX)
                     /\ unwrap(cur_card) = Vcard_new

\* C20 witness: a second card has been opened after the first was closed.
CardSlotDisciplineWitness ==
    /\ pc = "version"
    /\ Len(cards) = 1
    /\ cur_card = Some(Vcard_new)

====
